---- MODULE Spec2Model ----
(***************************************************************************)
(* Lyrics Timestamping Studio (src/v2.py): the timestamp recorder kept in  *)
(* st.session_state, the data_editor table replacement, and the SRT        *)
(* serialisation (format_time, create_srt).                                *)
(*                                                                         *)
(* Every run of the script is one action: the handler of the button that   *)
(* was clicked, then the table replacement of lines 157-160, then the      *)
(* export of lines 165-168.                                                *)
(***************************************************************************)
EXTENDS Integers, Sequences, FiniteSets, TLC

(***************************************************************************)
(* Python floats.  A non-negative double below 2^31 is held exactly as     *)
(* [w |-> whole part, f |-> <<a, b, c>>], the fraction being               *)
(* (a*2^36 + b*2^18 + c) / 2^54 in three 18-bit limbs.  Every double that  *)
(* is at least 1/4 is a multiple of 2^-54, so the form loses nothing.      *)
(***************************************************************************)
LimbBits == 18

FracBits == 3 * LimbBits

\* significand width of a Python float (IEEE-754 binary64)
Prec == 53

Limb == 2 ^ LimbBits

RECURSIVE BitLen(_)
\* number of bits of n: 0 for 0, floor(log2 n) + 1 otherwise
BitLen(n) == IF n = 0 THEN 0 ELSE 1 + BitLen(n \div 2)

RECURSIVE Tz(_)
\* number of trailing zero bits of n > 0
Tz(n) == IF n % 2 = 1 THEN 0 ELSE 1 + Tz(n \div 2)

ZeroFrac == <<0, 0, 0>>

FracBitLen(f) ==
    IF f[1] > 0 THEN 2 * LimbBits + BitLen(f[1])
    ELSE IF f[2] > 0 THEN LimbBits + BitLen(f[2])
    ELSE BitLen(f[3])

FracTz(f) ==
    IF f[3] > 0 THEN Tz(f[3])
    ELSE IF f[2] > 0 THEN LimbBits + Tz(f[2])
    ELSE 2 * LimbBits + Tz(f[1])

\* v is the exact value of some double: at most Prec significant bits
IsDouble(v) ==
    \/ v.f = ZeroFrac
    \/ (IF v.w > 0 THEN FracBits + BitLen(v.w) ELSE FracBitLen(v.f))
          - FracTz(v.f) <= Prec

Dbl(w, a, b, c) == [w |-> w, f |-> <<a, b, c>>]

\* the exact product frac * 1000 = n + r/2^54, limb by limb
MulFrac1000(f) ==
    LET p3 == f[3] * 1000
        p2 == f[2] * 1000 + (p3 \div Limb)
        p1 == f[1] * 1000 + (p2 \div Limb)
    IN  [n |-> p1 \div Limb, r |-> <<p1 % Limb, p2 % Limb, p3 % Limb>>]

\* The double product (seconds % 1) * 1000 is the exact product rounded to
\* Prec bits, nearest-even.  It lands on the integer n + 1 exactly when the
\* exact product n + r lies within half an ulp below it, the ulp being
\* 2^(BitLen(n) - Prec); a tie goes to n + 1, whose significand is even.
RoundsUpToInt(p) ==
    /\ p.r[1] = Limb - 1
    /\ p.r[2] = Limb - 1
    /\ p.r[3] >= Limb - 2 ^ (BitLen(p.n) + FracBits - Prec - 1)

FloatMs(seconds) ==
    LET p == MulFrac1000(seconds.f)
    IN  IF RoundsUpToInt(p) THEN p.n + 1 ELSE p.n

(***************************************************************************)
(* String formatting: f"{n:02}" and f"{n:03}" pad with zeros to a minimum  *)
(* width and never cut a longer number.                                    *)
(***************************************************************************)
Digit(d) ==
    CASE d = 0 -> "0" [] d = 1 -> "1" [] d = 2 -> "2" [] d = 3 -> "3"
      [] d = 4 -> "4" [] d = 5 -> "5" [] d = 6 -> "6" [] d = 7 -> "7"
      [] d = 8 -> "8" [] d = 9 -> "9"

RECURSIVE Str(_)
\* str(n) for a non-negative integer
Str(n) == IF n < 10 THEN Digit(n) ELSE Str(n \div 10) \o Digit(n % 10)

RECURSIVE Pad(_, _)
\* f"{n:0<width>}"
Pad(n, width) ==
    IF width <= 1 \/ n >= 10 ^ (width - 1) THEN Str(n)
    ELSE "0" \o Pad(n, width - 1)

FormatRoundedMs(seconds) ==
    LET p == MulFrac1000(seconds.f)
        ms == IF p.r[1] >= Limb \div 2 THEN p.n + 1 ELSE p.n
    IN  Pad(seconds.w \div 3600, 2) \o ":" \o Pad((seconds.w % 3600) \div 60, 2)
          \o ":" \o Pad(seconds.w % 60, 2) \o "," \o Pad(ms, 3)

\* src/v2.py:16-22.  seconds // 3600, (seconds % 3600) // 60 and
\* seconds % 60 are exact on doubles (fmod), so int() of them reads the
\* whole part; only the product in line 21 is rounded.
format_time(seconds) ==
    LET hrs == seconds.w \div 3600
        mins == (seconds.w % 3600) \div 60
        secs == seconds.w % 60
        ms == FloatMs(seconds)
    IN  Pad(hrs, 2) \o ":" \o Pad(mins, 2) \o ":" \o Pad(secs, 2)
          \o "," \o Pad(ms, 3)

(***************************************************************************)
(* The table st.session_state.timestamps: a pandas DataFrame, held as the  *)
(* sequence of its rows in order, each with its index label idx.           *)
(***************************************************************************)

\* None, and 0.0, are the falsy anchor values of lines 109, 111, 131, 145;
\* time.time() is positive, so an anchor that is set is never 0
None == 0

\* a cell the data editor left empty
Missing == [w |-> -1, f |-> ZeroFrac]

\* the model's clock counts ticks of 2^-TickBits seconds
TickBits == 1

TicksPerSec == 2 ^ TickBits

\* time.time() values of one session lie in one binade, so their sums and
\* differences are exact doubles: a count of ticks converts without loss
FromTicks(t) ==
    Dbl(t \div TicksPerSec, (t % TicksPerSec) * (Limb \div TicksPerSec), 0, 0)

\* elapsed + 2.0 (line 149), exact on a tick count
AddSeconds(v, n) == [v EXCEPT !.w = @ + n]

DEFAULT_DURATION == 2

Labels(df) == { df[p].idx : p \in 1..Len(df) }

\* df.loc[label] = [start, end, lyric] (line 150): pandas overwrites the
\* row carrying that label when there is one and appends a row otherwise
LocSet(df, label, start, end, lyric) ==
    LET row == [idx |-> label, start |-> start, end |-> end, lyric |-> lyric]
    IN  IF label \in Labels(df)
        THEN [p \in 1..Len(df) |-> IF df[p].idx = label THEN row ELSE df[p]]
        ELSE Append(df, row)

\* pd.DataFrame(columns=["start", "end", "lyric"]) (lines 105, 124)
EmptyFrame == <<>>

(***************************************************************************)
(* create_srt, src/v2.py:44-52.  iterrows() yields each row's index label  *)
(* as i, in row order.  A cell that is empty makes format_time raise.      *)
(***************************************************************************)
Raised == "<exception>"

NotExported == "<none>"

SrtIndices(df) == [p \in 1..Len(df) |-> df[p].idx + 1]

SrtBlock(i, row) ==
    Str(i) \o "\n" \o format_time(row.start) \o " --> " \o format_time(row.end)
      \o "\n" \o row.lyric \o "\n\n"

RECURSIVE SrtJoin(_, _, _)
SrtJoin(df, idx, p) ==
    IF p > Len(df) THEN ""
    ELSE SrtBlock(idx[p], df[p]) \o SrtJoin(df, idx, p + 1)

Formattable(df) ==
    \A p \in 1..Len(df) : df[p].start # Missing /\ df[p].end # Missing

create_srt(df) ==
    IF Formattable(df) THEN SrtJoin(df, SrtIndices(df), 1) ELSE Raised

\* lines 165-168: the export runs at the end of every script run that
\* leaves a non-empty table
Export(df) == IF Len(df) > 0 THEN create_srt(df) ELSE NotExported

(***************************************************************************)
(* State.  lyrics is what the lyrics uploader holds (lines 74-80), read   *)
(* anew by every run; whether the audio uploader holds a file (line 75) is *)
(* read by the Start / Restart handler alone and is its input; timestamps, *)
(* current_line, start_time, paused_time, is_paused                        *)
(* are st.session_state (lines 104-113); clock is time.time() in ticks;    *)
(* srt_output is what line 167 last produced.                              *)
(*                                                                         *)
(* History, read by the properties only: lastOp is the control the last    *)
(* script run served, took whether its handler's condition held, and       *)
(* preRows the number of rows a start that took effect threw away; active  *)
(* and pausedFor are the ticks spent not paused and paused since the last  *)
(* start that took effect, edits the table replacements since then, and    *)
(* marksOnly tells that nothing but marks, each at a later clock than the  *)
(* call before it, followed that start.                                    *)
(*                                                                         *)
(* fmt_seconds and fmt_result are the argument and the result of a call of *)
(* format_time on its own.                                                 *)
(***************************************************************************)
VARIABLES lyrics, timestamps, current_line, start_time,
          paused_time, is_paused, clock, srt_output,
          lastOp, took, preRows, active, pausedFor, edits, marksOnly,
          fmt_seconds, fmt_result

session == <<timestamps, current_line, start_time, paused_time, is_paused>>

fvars == <<fmt_seconds, fmt_result>>

vars == <<lyrics, timestamps, current_line, start_time,
          paused_time, is_paused, clock, srt_output,
          lastOp, took, preRows, active, pausedFor, edits, marksOnly,
          fmt_seconds, fmt_result>>

\* bounds of the model: the last clock value, and the table replacements
\* followed within one recording
MaxClock == 3

MaxEdits == 2

\* time.time() when the session opens, in ticks
Epoch == 1

\* the lyric files a user may upload, as line 79 reads them (stripped,
\* blank lines dropped): no file or a file with no line, a file of one
\* line, a file of two
LyricFiles == { <<>>, <<"Again">>, <<"Hello", "World">> }

NotCalled == "-"

\* lines 104-113, before any upload
RecorderInit ==
    /\ lyrics = <<>>
    /\ timestamps = EmptyFrame
    /\ current_line = 0
    /\ start_time = None
    /\ paused_time = None
    /\ is_paused = FALSE
    /\ clock = Epoch
    /\ srt_output = NotExported
    /\ lastOp = "open"
    /\ took = FALSE
    /\ preRows = 0
    /\ active = 0
    /\ pausedFor = 0
    /\ edits = 0
    /\ marksOnly = FALSE

Init ==
    /\ RecorderInit
    /\ fmt_seconds = Dbl(0, 0, 0, 0)
    /\ fmt_result = NotCalled

\* lines 157-168 of a run in which the user edited nothing: the editor
\* hands the table back as it is and the export follows
Rerun(op) ==
    /\ srt_output' = Export(timestamps')
    /\ lastOp' = op

\* time passes between two runs of the script
Tick ==
    /\ clock < MaxClock
    /\ clock' = clock + 1
    /\ active' = IF start_time # None /\ ~is_paused THEN active + 1 ELSE active
    /\ pausedFor' = IF start_time # None /\ is_paused THEN pausedFor + 1
                                                     ELSE pausedFor
    /\ lastOp' = "tick"
    /\ took' = TRUE
    /\ preRows' = 0
    /\ UNCHANGED <<session, lyrics, srt_output, edits, marksOnly, fvars>>

\* lines 74, 77-80: a lyrics file is uploaded, replaced or removed
UploadLyrics ==
    /\ \E file \in LyricFiles : file # lyrics /\ lyrics' = file
    /\ marksOnly' = FALSE
    /\ took' = TRUE
    /\ preRows' = 0
    /\ UNCHANGED <<session, clock, active, pausedFor, edits, fvars>>
    /\ Rerun("lyrics")

StartGuardNoLyrics(lines, audio) == audio

\* line 123: what the Start / Restart click needs to take effect
StartGuard(lines, audio) == lines # <<>> /\ audio

StartFrameKept(df) == df

\* line 124: the table is replaced by a new, empty one
StartFrame(df) == EmptyFrame

\* lines 122-128; audio_file tells whether an audio file is uploaded
StartRun(audio_file) ==
    /\ IF StartGuard(lyrics, audio_file)
       THEN /\ timestamps' = StartFrame(timestamps)
            /\ current_line' = 0
            /\ start_time' = clock
            /\ is_paused' = FALSE
            /\ active' = 0
            /\ pausedFor' = 0
            /\ edits' = 0
            /\ marksOnly' = TRUE
            /\ preRows' = Len(timestamps)
            /\ UNCHANGED paused_time
       ELSE /\ marksOnly' = FALSE
            /\ preRows' = 0
            /\ UNCHANGED <<session, active, pausedFor, edits>>
    /\ took' = StartGuard(lyrics, audio_file)
    /\ Rerun(IF audio_file THEN "start" ELSE "start, no audio")
    /\ UNCHANGED <<lyrics, clock, fvars>>

Start == \E audio_file \in BOOLEAN : StartRun(audio_file)

PauseGuardUnstarted(anchor, paused) == ~paused

PauseGuardAlways(anchor, paused) == anchor # None

\* lines 131-132
PauseGuard(anchor, paused) == anchor # None /\ ~paused

\* lines 130-135
Pause ==
    /\ IF PauseGuard(start_time, is_paused)
       THEN /\ paused_time' = clock
            /\ is_paused' = TRUE
            /\ UNCHANGED <<timestamps, current_line, start_time>>
       ELSE UNCHANGED session
    /\ took' = PauseGuard(start_time, is_paused)
    /\ marksOnly' = FALSE
    /\ preRows' = 0
    /\ Rerun("pause")
    /\ UNCHANGED <<lyrics, clock, active, pausedFor, edits, fvars>>

ResumeGuardAlways(anchor, paused) == anchor # None

\* line 138
ResumeGuard(anchor, paused) == paused

ResumeAnchorUnshifted(anchor, pausedAt, now) == anchor

\* lines 139-140: offset = time.time() - paused_time; start_time += offset
ResumeAnchor(anchor, pausedAt, now) == anchor + (now - pausedAt)

\* lines 137-142
Resume ==
    /\ IF ResumeGuard(start_time, is_paused)
       THEN /\ start_time' = ResumeAnchor(start_time, paused_time, clock)
            /\ is_paused' = FALSE
            /\ UNCHANGED <<timestamps, current_line, paused_time>>
       ELSE UNCHANGED session
    /\ took' = ResumeGuard(start_time, is_paused)
    /\ marksOnly' = FALSE
    /\ preRows' = 0
    /\ Rerun("resume")
    /\ UNCHANGED <<lyrics, clock, active, pausedFor, edits, fvars>>

MarkGuardWhilePaused(anchor, paused, cursor, lines) ==
    anchor # None /\ cursor < Len(lines)

\* line 145: the Mark Timestamp button exists only under this condition
MarkGuard(anchor, paused, cursor, lines) ==
    /\ anchor # None
    /\ ~paused
    /\ cursor < Len(lines)

MarkedRowFirstLine(df, now, anchor, lines, cursor) ==
    LET elapsed == FromTicks(now - anchor)
    IN  LocSet(df, Len(df), elapsed, AddSeconds(elapsed, DEFAULT_DURATION),
               lines[1])

\* lines 147-150
MarkedRow(df, now, anchor, lines, cursor) ==
    LET elapsed == FromTicks(now - anchor)
        line == lines[cursor + 1]
        prev_end == AddSeconds(elapsed, DEFAULT_DURATION)
    IN  LocSet(df, Len(df), elapsed, prev_end, line)

\* lines 144-152
Mark ==
    /\ IF MarkGuard(start_time, is_paused, current_line, lyrics)
       THEN /\ timestamps' =
                 MarkedRow(timestamps, clock, start_time, lyrics, current_line)
            /\ current_line' = current_line + 1
            /\ marksOnly' = (marksOnly /\ lastOp = "tick")
            /\ UNCHANGED <<start_time, paused_time, is_paused>>
       ELSE UNCHANGED <<session, marksOnly>>
    /\ took' = MarkGuard(start_time, is_paused, current_line, lyrics)
    /\ preRows' = 0
    /\ Rerun("mark")
    /\ UNCHANGED <<lyrics, clock, active, pausedFor, edits, fvars>>

(***************************************************************************)
(* Lines 157-160: st.data_editor(..., num_rows="dynamic") shows the table  *)
(* while it has a row and the script stores whatever it returns.  One      *)
(* user edit is one script run.  A deleted row leaves the other rows'      *)
(* index labels as they were; an added row comes with empty cells.         *)
(***************************************************************************)
\* 0.25, the value a user types into an end cell
EditEnd == Dbl(0, 65536, 0, 0)

DeleteRow(df, p) == [q \in 1..(Len(df) - 1) |-> IF q < p THEN df[q] ELSE df[q + 1]]

\* the new row takes the label after the largest one in use
AddRow(df) ==
    LET label == 1 + CHOOSE l \in Labels(df) : \A k \in Labels(df) : k <= l
    IN  Append(df, [idx |-> label, start |-> Missing, end |-> Missing,
                    lyric |-> "None"])

Edited(df) ==
    { DeleteRow(df, p) : p \in 1..Len(df) }
      \cup { [df EXCEPT ![p].end = EditEnd] : p \in 1..Len(df) }
      \cup { AddRow(df) }

ExternalEditMovingCursor ==
    /\ Len(timestamps) > 0
    /\ edits < MaxEdits
    /\ \E edited_df \in Edited(timestamps) :
          /\ edited_df # timestamps
          /\ timestamps' = edited_df
    /\ current_line' = Len(timestamps')
    /\ edits' = edits + 1
    /\ marksOnly' = FALSE
    /\ took' = TRUE
    /\ preRows' = 0
    /\ UNCHANGED <<start_time, paused_time, is_paused, lyrics,
                   clock, active, pausedFor, fvars>>
    /\ Rerun("edit")

\* lines 157-160: the table the editor returns replaces the stored one
ExternalEdit ==
    /\ Len(timestamps) > 0
    /\ edits < MaxEdits
    /\ \E edited_df \in Edited(timestamps) :
          /\ edited_df # timestamps
          /\ timestamps' = edited_df
    /\ edits' = edits + 1
    /\ marksOnly' = FALSE
    /\ took' = TRUE
    /\ preRows' = 0
    /\ UNCHANGED <<current_line, start_time, paused_time, is_paused, lyrics,
                   clock, active, pausedFor, fvars>>
    /\ Rerun("edit")

Next ==
    \/ Tick
    \/ UploadLyrics
    \/ Start
    \/ Pause
    \/ Resume
    \/ Mark
    \/ ExternalEdit

Spec == Init /\ [][Next]_vars

(***************************************************************************)
(* format_time on its own, over doubles chosen around the field            *)
(* boundaries and around the products that round.                          *)
(***************************************************************************)

\* whole parts around the minute, hour, day and 100-hour boundaries
FmtWholes == {0, 1, 2, 3, 59, 60, 61, 63, 3599, 3600, 3601, 3661, 86399, 359999, 360000}

\* fractions: 0, 1/4, 1/2, 3/4, and the fractions of the doubles nearest
\* 0.57, 0.624, 0.7, 0.999, 0.9999, x.001, x.3, xxxx.234, xx.9995,
\* xx.9999, xxxxxx.999, and of 1 - 2^-53, 1 - 2^-47, 1 - 2^-41
FmtFracs ==
    { <<0, 0, 0>>, <<65536, 0, 0>>, <<131072, 0, 0>>, <<196608, 0, 0>>,
      <<149422, 20971, 136314>>, <<163577, 224395, 69206>>,
      <<183500, 209715, 52428>>, <<261881, 224395, 69206>>,
      <<262117, 205940, 85564>>, <<262, 37748, 192936>>,
      <<78643, 52428, 209712>>, <<61341, 182452, 57344>>,
      <<262012, 243269, 165632>>, <<262117, 205940, 85504>>,
      <<261881, 224396, 0>>, <<262143, 262143, 262142>>,
      <<262143, 262143, 262016>>, <<262143, 262143, 253952>> }

FmtInputs == { v \in [w : FmtWholes, f : FmtFracs] : IsDouble(v) }

FmtInit ==
    /\ RecorderInit
    /\ fmt_seconds \in FmtInputs
    /\ fmt_result = NotCalled

FmtCall ==
    /\ fmt_result = NotCalled
    /\ fmt_result' = format_time(fmt_seconds)
    /\ UNCHANGED <<fmt_seconds, session, lyrics, clock, srt_output, lastOp,
                   took, preRows, active, pausedFor, edits, marksOnly>>

FmtNext == FmtCall

SpecFmt == FmtInit /\ [][FmtNext]_vars
(***************************************************************************)
(* The recorder's states, read off the session (section 4.1 of the spec).  *)
(***************************************************************************)
Idle == start_time = None

Paused == is_paused

Running == start_time # None /\ ~is_paused /\ current_line < Len(lyrics)

Exhausted == start_time # None /\ ~is_paused /\ current_line >= Len(lyrics)

StartOps == {"start", "start, no audio"}

\* a < b on doubles
DblLess(a, b) ==
    \/ a.w < b.w
    \/ /\ a.w = b.w
       /\ \/ a.f[1] < b.f[1]
          \/ a.f[1] = b.f[1] /\ a.f[2] < b.f[2]
          \/ a.f[1] = b.f[1] /\ a.f[2] = b.f[2] /\ a.f[3] < b.f[3]

\* the row of df labelled l
RowLabelled(df, l) == df[CHOOSE p \in 1..Len(df) : df[p].idx = l]

\* C1: after a start that took effect, followed by nothing but marks, each
\* at a later clock than the call before it, once every line is marked the
\* table has one row per line, row i carries line i, every end is its start
\* plus 2.0, and the starts increase strictly.
C1_StartThenMarks ==
    (marksOnly /\ current_line = Len(lyrics)) =>
        /\ Len(timestamps) = Len(lyrics)
        /\ \A i \in 1..Len(timestamps) :
              /\ timestamps[i].lyric = lyrics[i]
              /\ timestamps[i].end.w = timestamps[i].start.w + 2
              /\ timestamps[i].end.f = timestamps[i].start.f
        /\ \A i, j \in 1..Len(timestamps) :
              i < j => DblLess(timestamps[i].start, timestamps[j].start)

C1_Witness ==
    /\ marksOnly
    /\ lastOp = "mark"
    /\ took
    /\ Len(lyrics) = 2
    /\ current_line = 2

\* C2: the start value a mark records is the time spent not paused since
\* the start, whatever pauses and resumes came between and however long
\* they lasted.
C2_ElapsedIsActiveTime ==
    [][(lastOp' = "mark" /\ took') =>
          RowLabelled(timestamps', Len(timestamps)).start = FromTicks(active)]_vars

C2_Witness ==
    /\ lastOp = "mark"
    /\ took
    /\ active > 0
    /\ pausedFor > 0

\* C3 as stated, for a start with at least one line loaded (no line is
\* C4's case): whatever the state, after start() the table is empty, the
\* cursor 0, the anchor the current time and the recorder not paused.
C3_StartUnconditional ==
    (lastOp \in StartOps /\ lyrics # <<>>) =>
        /\ timestamps = EmptyFrame
        /\ current_line = 0
        /\ start_time = clock
        /\ ~is_paused

\* C3 amended: start() with at least one line and an audio file loaded
\* resets from any state: the table is empty, the cursor 0, the anchor the
\* current time and the recorder not paused.
C3_StartResets ==
    (lastOp = "start" /\ lyrics # <<>>) =>
        /\ took
        /\ timestamps = EmptyFrame
        /\ current_line = 0
        /\ start_time = clock
        /\ ~is_paused

C3_Witness ==
    /\ lastOp = "start"
    /\ took
    /\ preRows = 2
    /\ timestamps = EmptyFrame
    /\ paused_time # None

\* C4 as stated: start() with zero lines resets the table and the cursor,
\* sets the anchor and clears paused (Exhausted at once), and a mark with
\* zero lines changes nothing.
C4_EmptyStartExhausts ==
    /\ (lastOp \in StartOps /\ lyrics = <<>>) =>
          /\ timestamps = EmptyFrame
          /\ current_line = 0
          /\ start_time = clock
          /\ ~is_paused
    /\ (lastOp = "mark" /\ lyrics = <<>>) => ~took

\* C4 amended: start() with zero lines is a no-op, leaving the table, the
\* cursor, both anchors and the paused flag as they were (so no move to
\* Exhausted), and a mark with zero lines changes nothing.
C4_EmptyStartIsNoop ==
    [][(lastOp' \in StartOps \cup {"mark"} /\ lyrics = <<>>) =>
          UNCHANGED session]_vars

C4_Witness ==
    /\ lastOp \in StartOps
    /\ lyrics = <<>>
    /\ ~took
    /\ timestamps # EmptyFrame
    /\ current_line > 0

\* C5: a mark invoked when the recorder is not Running with a line left
\* (Idle, Paused, or Exhausted) leaves the table, the cursor, the anchor
\* and the paused flag unchanged.
C5_MarkOnlyWhenRunning ==
    [][(lastOp' = "mark" /\ ~Running) =>
          UNCHANGED <<timestamps, current_line, start_time, is_paused>>]_vars

C5_Witness ==
    /\ lastOp = "mark"
    /\ ~took
    /\ Paused
    /\ current_line < Len(lyrics)
    /\ timestamps # EmptyFrame

\* C6 as stated, with lines loaded: pause() acts only in Running, where it
\* sets the pause anchor to the current time and the paused flag; in Idle,
\* Paused and Exhausted it leaves both anchors, the flag, the cursor and
\* the table unchanged.
C6_PauseOnlyWhenRunning ==
    [][(lastOp' = "pause" /\ lyrics # <<>>) =>
          IF Running
          THEN paused_time' = clock /\ is_paused'
          ELSE UNCHANGED session]_vars

\* C6 amended: pause() acts whenever the anchor is set and the recorder is
\* not paused, in Running and in Exhausted alike: it sets the pause anchor
\* to the current time and the paused flag, and nothing else; in Idle and
\* in Paused it leaves both anchors, the flag, the cursor and the table
\* unchanged.
C6_PauseWhenStartedAndNotPaused ==
    [][lastOp' = "pause" =>
          IF Running \/ Exhausted
          THEN /\ paused_time' = clock
               /\ is_paused'
               /\ UNCHANGED <<start_time, current_line, timestamps>>
          ELSE UNCHANGED session]_vars

C6_Witness ==
    /\ lastOp = "pause"
    /\ took
    /\ Len(lyrics) > 0
    /\ current_line = Len(lyrics)
    /\ is_paused
    /\ paused_time = clock

\* C7: resume() acts only in Paused, where it moves the anchor forward by
\* the time since the pause anchor and clears the paused flag; in every
\* other state (Idle, Running, Exhausted, restarted while paused) it leaves
\* the anchor, the flag, the cursor and the table unchanged.
C7_ResumeOnlyWhenPaused ==
    [][lastOp' = "resume" =>
          IF Paused
          THEN /\ start_time' = start_time + (clock - paused_time)
               /\ ~is_paused'
          ELSE UNCHANGED <<start_time, is_paused, current_line, timestamps>>]_vars

C7_Witness ==
    /\ lastOp = "resume"
    /\ took
    /\ ~is_paused
    /\ pausedFor > 0
    /\ start_time + active = clock

Exported == srt_output \notin {NotExported, Raised}

\* C8: the block of the row at position p carries the number p, whatever
\* the rows' labels and times, so the numbers run 1, 2, ..., Len(table).
C8_IndexIsPosition ==
    \A p \in 1..Len(timestamps) : SrtIndices(timestamps)[p] = p

RECURSIVE EncodeFrom(_, _)
\* the blocks of the rows from position p on, numbered by position
EncodeFrom(df, p) ==
    IF p > Len(df) THEN ""
    ELSE Str(p) \o "\n" \o format_time(df[p].start) \o " --> "
           \o format_time(df[p].end) \o "\n" \o df[p].lyric \o "\n\n"
           \o EncodeFrom(df, p + 1)

\* C9: the export is the rows' blocks "<position>\n<start> --> <end>\n
\* <text>\n\n" in table order; the empty table gives the empty string, and
\* the one-row table {1.5, 3.0, "Hello"} gives the block numbered 1.
C9_EncodeIsBlocksByPosition ==
    /\ Exported => srt_output = EncodeFrom(timestamps, 1)
    /\ create_srt(EmptyFrame) = ""
    /\ create_srt(<<[idx |-> 0, start |-> Dbl(1, 131072, 0, 0),
                     end |-> Dbl(3, 0, 0, 0), lyric |-> "Hello"]>>)
         = "1\n00:00:01,500 --> 00:00:03,000\nHello\n\n"

(***************************************************************************)
(* format_time against the fields of the exact value: whole seconds w and  *)
(* the exact product frac * 1000 = n + r.                                  *)
(***************************************************************************)
Called == fmt_result # NotCalled

\* floor(seconds * 1000), exactly
ExactMillis(seconds) == seconds.w * 1000 + MulFrac1000(seconds.f).n

\* HH:MM:SS,mmm read off a count of milliseconds, no field carrying
ClockOfMillis(t) ==
    Pad(t \div 3600000, 2) \o ":" \o Pad((t \div 60000) % 60, 2) \o ":"
      \o Pad((t \div 1000) % 60, 2) \o "," \o Pad(t % 1000, 3)

\* C10 as stated: the result is HH:MM:SS,mmm with HH = floor(s / 3600),
\* MM = floor((s mod 3600) / 60), SS = floor(s mod 60) and
\* mmm = floor(frac(s) * 1000): truncated, never rounded.
C10_TruncatesNeverRounds ==
    Called => fmt_result = ClockOfMillis(ExactMillis(fmt_seconds))

\* the exact product lies less than 2^-44 below the next integer
NearNextInt(p) ==
    /\ p.r[1] = Limb - 1
    /\ p.r[2] = Limb - 1
    /\ p.r[3] >= Limb - 2 ^ 10

\* C10 amended: HH, MM and SS are as stated, and mmm is the floor of the
\* double product (s mod 1) * 1000: that is floor(frac(s) * 1000), or one
\* more when the exact product lies within 2^-44 below the next integer,
\* where the double product rounds up to it; mmm stays in 0..999, so no
\* field ever carries.
C10_TruncatesTheDoubleProduct ==
    Called =>
        LET p == MulFrac1000(fmt_seconds.f)
            t == fmt_seconds.w * 1000
        IN  \E m \in {p.n, p.n + 1} :
               /\ m <= 999
               /\ m = p.n + 1 => NearNextInt(p)
               /\ fmt_result = ClockOfMillis(t + m)

\* 59.9995 gives 00:00:59,999
C10_Witness ==
    /\ fmt_seconds = Dbl(59, 262012, 243269, 165632)
    /\ fmt_result = "00:00:59,999"

\* C11: format_time(0.0) is "00:00:00,000", format_time(3661.234) is
\* "01:01:01,234" and format_time(59.9999) is "00:00:59,999"; the arguments
\* are the doubles the three literals denote.
C11_Examples ==
    Called =>
        /\ fmt_seconds = Dbl(0, 0, 0, 0) => fmt_result = "00:00:00,000"
        /\ fmt_seconds = Dbl(3661, 61341, 182452, 57344)
              => fmt_result = "01:01:01,234"
        /\ fmt_seconds = Dbl(59, 262117, 205940, 85504)
              => fmt_result = "00:00:59,999"

\* C12: a table replacement by the editor, in whatever state it happens,
\* leaves the anchor, the pause anchor, the paused flag and the cursor as
\* they were.
C12_EditKeepsRecorder ==
    [][lastOp' = "edit" =>
          UNCHANGED <<start_time, paused_time, is_paused, current_line>>]_vars

C12_Witness ==
    /\ lastOp = "edit"
    /\ is_paused
    /\ current_line = 2
    /\ Len(timestamps) # current_line

\* C13: in every reachable state the cursor is at most the number of lines
\* of the lyrics currently loaded.
C13_CursorWithinLines == current_line <= Len(lyrics)

\* C14: in every reachable state exactly one of idle (anchor unset), paused
\* (paused flag set) and recording-active (anchor set, flag clear) holds:
\* the flag is never set while the anchor is unset, and whenever the flag
\* is set the pause anchor is set, so a resume that acts reads a set pause
\* anchor.
C14_OneModeAtATime ==
    /\ Cardinality({ m \in {"idle", "paused", "active"} :
                        \/ m = "idle" /\ start_time = None
                        \/ m = "paused" /\ is_paused
                        \/ m = "active" /\ start_time # None /\ ~is_paused }) = 1
    /\ is_paused => start_time # None
    /\ is_paused => paused_time # None
    /\ (lastOp = "resume" /\ took) => paused_time # None

C14_Witness ==
    /\ is_paused
    /\ lastOp = "tick"
    /\ pausedFor > 0
    /\ active = 0

\* C15: a mark in Running appends exactly one row to whatever table is
\* current, a table the editor has replaced included: the table is one row
\* longer, the new row {elapsed, elapsed + 2.0, lines[cursor]} is its last
\* row, every row it had is unchanged, and the cursor is one further.
C15_MarkAppendsOneRow ==
    [][(lastOp' = "mark" /\ Running) =>
          LET elapsed == FromTicks(clock - start_time)
          IN  /\ Len(timestamps') = Len(timestamps) + 1
              /\ timestamps'[Len(timestamps')].start = elapsed
              /\ timestamps'[Len(timestamps')].end
                   = AddSeconds(elapsed, DEFAULT_DURATION)
              /\ timestamps'[Len(timestamps')].lyric = lyrics[current_line + 1]
              /\ \A p \in 1..Len(timestamps) : timestamps'[p] = timestamps[p]
              /\ current_line' = current_line + 1]_vars

\* C16 as stated: pause() sets the pause anchor only when the recorder is
\* not already paused (a second pause() while paused does not move it), and
\* after every resume() that acts the pause anchor is unset.
C16_ResumeClearsPauseAnchor ==
    [][/\ (lastOp' = "pause" /\ is_paused) => paused_time' = paused_time
       /\ (lastOp' = "pause" /\ took') => paused_time' = clock
       /\ (lastOp' = "resume" /\ took') => paused_time' = None]_vars

\* C16 amended: pause() sets the pause anchor only when the recorder is
\* started and not already paused (a second pause() while paused does not
\* move it), and resume() does not clear it: after every resume() that
\* acts the pause anchor still holds the time of the last pause, and only
\* the paused flag is cleared.
C16_ResumeKeepsPauseAnchor ==
    [][/\ (lastOp' = "pause" /\ (is_paused \/ start_time = None))
             => paused_time' = paused_time
       /\ (lastOp' = "pause" /\ took') => paused_time' = clock
       /\ (lastOp' = "resume" /\ took') =>
             /\ paused_time' = paused_time
             /\ paused_time' # None
             /\ ~is_paused']_vars

C16_Witness ==
    /\ lastOp = "resume"
    /\ took
    /\ paused_time # None
    /\ paused_time < clock
    /\ current_line = 1

\* C17: the export validates nothing and never fails: for whatever table
\* the editor supplied (an end before its start, rows out of order, rows
\* overlapping) it completes and gives one block per row, in table order,
\* each carrying the row's own start, end and text.
C17_EncodeNeverFatal ==
    Len(timestamps) > 0 =>
        /\ srt_output # Raised
        /\ srt_output = SrtJoin(timestamps, SrtIndices(timestamps), 1)

\* C18: while the editor has replaced nothing since the last start, in
\* every reachable state the table has as many rows as the cursor counts,
\* and row i carries line i of the lyrics, for every i below the cursor.
C18_TableTracksCursor ==
    edits = 0 =>
        /\ Len(timestamps) = current_line
        /\ \A i \in 1..current_line :
              /\ i <= Len(lyrics)
              /\ timestamps[i].lyric = lyrics[i]

\* C19: the clock never going backward, in every reachable state where the
\* anchor is set it is at most the current time, and while paused
\* anchor <= pause anchor <= current time, a restart while paused included
\* (its stale pause anchor is never applied to the new anchor); so every
\* row a mark records has start >= 0 and end >= start, and the start of a
\* mark made at a later clock than the event before it is strictly above
\* the start of the row marked before it in the same recording.
C19_AnchorsOrdered ==
    /\ [](start_time # None =>
             /\ start_time <= clock
             /\ is_paused => (start_time <= paused_time /\ paused_time <= clock))
    /\ [][(lastOp' = "mark" /\ took') =>
             LET row == RowLabelled(timestamps', Len(timestamps))
             IN  /\ row.start.w >= 0
                 /\ ~DblLess(row.end, row.start)
                 /\ (edits = 0 /\ Len(timestamps) > 0 /\ lastOp = "tick") =>
                       DblLess(timestamps[Len(timestamps)].start, row.start)]_vars

C19_Witness ==
    /\ lastOp = "mark"
    /\ took
    /\ edits = 0
    /\ Len(timestamps) = 2
    /\ pausedFor > 0
    /\ paused_time > start_time
====
